---------------------------- MODULE Spec2Model ----------------------------
(***************************************************************************)
(* Research workflow engine of FIA_AgentesIA-App.                          *)
(*                                                                         *)
(* The repository holds two implementations of the same three-stage        *)
(* pipeline (extract_tools -> research -> analyze):                        *)
(*   "Workflow"      Agente_IA_Workflow/src/workflow.py  (class Workflow)   *)
(*   "WorkflowAgent" agents/workflow_agent.py      (class WorkflowAgent)   *)
(* The variable impl selects which one a behaviour runs.  Collaborators    *)
(* (Firecrawl search / scrape, the chat model) are the environment: every  *)
(* call's outcome is drawn from a small set inside the action that makes   *)
(* the call.                                                               *)
(*                                                                         *)
(* Text that the code parses (the model's answer, tool names, titles) is a *)
(* sequence of one-character strings; scraped markdown, which is only      *)
(* sliced and concatenated, is a sequence of runs [c, n] (n times the      *)
(* character c); text that is only copied (urls, snippets, descriptions)   *)
(* is a TLA+ string.                                                       *)
(*                                                                         *)
(* Specifications:                                                         *)
(*   Spec        one run of the pipeline on a constructed engine           *)
(*   SpecCancel  one run that the caller may interrupt                     *)
(*   SpecEngine  the host from its start: construction, run after run      *)
(*   SpecServer  the web application's event loop: a workflow request and  *)
(*               an unrelated request                                      *)
(*   SpecChat    the global MCP agent serving the chat of several callers  *)
(*   SpecParse   the first stage from its model call on, answer by answer  *)
(*   SpecExterno the global external agent: chat and reset requests        *)
(*   SpecApp     the web application: startup, then POST /chat             *)
(***************************************************************************)
EXTENDS Naturals, Sequences, FiniteSets

\* ------------------------------------------------------------------ bounds
\* longest model answer enumerated character by character
MaxRespLen == 3
\* longest fallback result list enumerated length by length (the code asks
\* for 4 results; the list of one result more is always part of the model)
MaxFallback == 3
\* longest fallback result list whose records are enumerated freely
MaxMixed == 1
\* most results the article search returns (the code asks for 3)
MaxArticles == 2
\* longest MCPAgent.message_history explored, the system message included
MaxHistory == 5

\* ------------------------------------------------------- program constants
\* tool_names = extracted_tools[:4]
MaxTools == 4
\* search_companies(state.query, num_results=4)
FallbackLimit == 4
\* scraped.markdown[:1500]
ArticleChars == 1500
\* company.tech_stack[:3], company.language_support[:3] in the formatted answer
ShownItems == 3

\* Python's None, as a value of the Optional[str] / Optional[bool] fields
None == "<None>"
\* Optional[bool] values
PyTrue == "True"
PyFalse == "False"

Impls == {"Workflow", "WorkflowAgent"}
Queries == {"q"}

\* ------------------------------------------------------------ str helpers
Min(a, b) == IF a < b THEN a ELSE b

\* s[:n]
Take(s, n) == SubSeq(s, 1, Min(n, Len(s)))

\* run-length text: n times the character c
Run(c, n) == [c |-> c, n |-> n]

\* s[:n] of a run-length text
RECURSIVE TakeRuns(_, _)
TakeRuns(s, n) ==
    IF s = <<>> \/ n = 0 THEN <<>>
    ELSE IF Head(s).n <= n THEN <<Head(s)>> \o TakeRuns(Tail(s), n - Head(s).n)
    ELSE <<Run(Head(s).c, n)>>

\* characters str.strip() removes
IsSpace(c) == c \in {" ", "\n"}

RECURSIVE LStrip(_)
LStrip(s) == IF s # <<>> /\ IsSpace(Head(s)) THEN LStrip(Tail(s)) ELSE s

RECURSIVE RStrip(_)
RStrip(s) ==
    IF s # <<>> /\ IsSpace(s[Len(s)]) THEN RStrip(SubSeq(s, 1, Len(s) - 1)) ELSE s

\* str.strip()
Strip(s) == RStrip(LStrip(s))

\* str.split("\n"): the pieces between newlines; "" splits into [""]
RECURSIVE SplitLines(_, _)
SplitLines(s, cur) ==
    IF s = <<>> THEN <<cur>>
    ELSE IF Head(s) = "\n" THEN <<cur>> \o SplitLines(Tail(s), <<>>)
    ELSE SplitLines(Tail(s), Append(cur, Head(s)))

\* a filter that keeps every line
KeepEveryLine(line) == TRUE

\* "if name.strip()": is anything left of the line once it is stripped
NonBlank(line) == Strip(line) # <<>>

\* [name.strip() for name in content.strip().split("\n") if name.strip()]
ParseToolNames(content) ==
    LET lines == SelectSeq(SplitLines(Strip(content), <<>>), NonBlank)
    IN  [i \in 1..Len(lines) |-> Strip(lines[i])]

\* --------------------------------------------------------- dict, responses
\* A search result is a dict: keys holds the keys that are present.
\* dict.get(key, default)
Get(d, key, default) == IF key \in d.keys THEN d[key] ELSE default

\* what FirecrawlApp.search does: raises, or returns a response with .data
SearchFailed == [ok |-> FALSE, data |-> <<>>]
SearchResponse(data) == [ok |-> TRUE, data |-> data]

\* search_companies: the response, or the list [] when the call raised
EmptyList == [kind |-> "list", data |-> <<>>]
search_companies(outcome) ==
    IF outcome.ok THEN [kind |-> "response", data |-> outcome.data] ELSE EmptyList

\* hasattr(x, 'data') and x.data   (WorkflowAgent's guard)
HasData(x) == x.kind = "response" /\ x.data # <<>>
\* bool(x): [] is falsy, a response object is truthy   (Workflow's guard)
Truthy(x) == x.kind = "response"

\* what FirecrawlApp.scrape_url does: raises, or returns a document
ScrapeFailed == [ok |-> FALSE, markdown |-> <<>>]
ScrapeDoc(md) == [ok |-> TRUE, markdown |-> md]

\* what llm.invoke does: raises, or returns a message with .content
LLMFailed == [ok |-> FALSE, content |-> <<>>]
LLMReply(content) == [ok |-> TRUE, content |-> content]

\* -------------------------------------------------------------- data model
\* a CompanyInfo whose two tri-state fields default to False
CompanyInfoFalseDefaults(name, description, website) ==
    [name |-> name, description |-> description, website |-> website,
     pricing_model |-> None, is_open_source |-> PyFalse, tech_stack |-> <<>>,
     competitors |-> <<>>, api_available |-> PyFalse, language_support |-> <<>>,
     integration_capabilities |-> <<>>, developer_experience_rating |-> None]

\* CompanyInfo(name=..., description=..., website=...) with the class defaults
CompanyInfo(name, description, website) ==
    [name |-> name, description |-> description, website |-> website,
     pricing_model |-> None, is_open_source |-> None, tech_stack |-> <<>>,
     competitors |-> <<>>, api_available |-> None, language_support |-> <<>>,
     integration_capabilities |-> <<>>, developer_experience_rating |-> None]

\* the CompanyAnalysis built in the except branch of _analyze_company_content
FailedPricing(im) == IF im = "Workflow" THEN "Unknown" ELSE "Desconhecido"
FailedDescription(im) == IF im = "Workflow" THEN "Falhou" ELSE "Análise falhou"
SentinelAnalysis(im) ==
    [pricing_model |-> FailedPricing(im), is_open_source |-> None,
     tech_stack |-> <<>>, description |-> FailedDescription(im),
     api_available |-> None, language_support |-> <<>>,
     integration_capabilities |-> <<>>]

\* a CompanyAnalysis the structured model returns when the call succeeds
GoodAnalysis ==
    [pricing_model |-> "Freemium", is_open_source |-> PyFalse,
     tech_stack |-> <<"python">>, description |-> "d",
     api_available |-> PyTrue, language_support |-> <<"en">>,
     integration_capabilities |-> <<"slack">>]

\* structured_llm.invoke: raises, or returns a CompanyAnalysis
ExtractFailed == [ok |-> FALSE, value |-> GoodAnalysis]
ExtractOk(a) == [ok |-> TRUE, value |-> a]

\* a ResearchState whose query field is the augmented search text
ResearchStateAugmented(q) ==
    [query |-> "q preços, ofertas e valores", extracted_tools |-> <<>>,
     companies |-> <<>>, analysis |-> None]

\* ResearchState(query=q): the other fields at their class defaults
ResearchState(q) ==
    [query |-> q, extracted_tools |-> <<>>, companies |-> <<>>, analysis |-> None]

\* an except branch that leaves analysis as it was
UnsetAnalysis == None

\* fixed text of the except branch of WorkflowAgent._analyze_step
FallbackAnalysis == "Não foi possível gerar recomendações no momento."


\* ------------------------------------------------------------- environment
\* a search-result dict; keys lists the keys present, metadata is a dict too
Result(keys, url, markdown, mkeys, mtitle, title) ==
    [keys |-> keys, url |-> url, markdown |-> markdown,
     metadata |-> [keys |-> mkeys, title |-> mtitle], title |-> title]
\* the {} default of result.get("metadata", {})
EmptyDict == [keys |-> {}, title |-> <<>>]
\* the "Unknown" default of the title lookup
Unknown == <<"U", "n", "k", "n", "o", "w", "n">>

\* results of the article search: with and without a url
ArticleRecords ==
    {Result({"url", "markdown"}, "u", "s", {}, <<>>, <<>>),
     Result({"markdown"}, "", "s", {}, <<>>, <<>>)}

\* results of the official-site search: url and snippet, or neither key
SiteRecords ==
    {Result({"url", "markdown"}, "u", "s", {}, <<>>, <<>>),
     Result({}, "", "", {}, <<>>, <<>>)}

\* results of the fallback search, by where the title is
TitledRecord == Result({"url", "metadata"}, "u", "", {"title"}, <<"t">>, <<>>)
FallbackRecords ==
    {TitledRecord,
     Result({"url", "metadata", "title"}, "u", "", {}, <<>>, <<"k">>),
     Result({"url"}, "u", "", {}, <<>>, <<>>),
     Result({"url", "metadata"}, "u", "", {"title"}, <<>>, <<>>)}

\* a result list with one result more than the fallback search asks for
OverLimit == [i \in 1..(FallbackLimit + 1) |-> TitledRecord]

\* sequences over S of length at most n
SeqUpTo(S, n) == UNION {[1..k -> S] : k \in 0..n}

\* outcomes of app.search for the three searches
ArticleSearchOutcomes ==
    {SearchFailed} \cup {SearchResponse(d) : d \in SeqUpTo(ArticleRecords, MaxArticles)}
FallbackSearchOutcomes ==
    {SearchFailed}
    \cup {SearchResponse(d) : d \in SeqUpTo(FallbackRecords, MaxMixed)}
    \cup {SearchResponse([i \in 1..n |-> TitledRecord]) : n \in 0..MaxFallback}
    \cup {SearchResponse(OverLimit)}
SiteSearchOutcomes ==
    {SearchFailed, SearchResponse(<<>>)} \cup {SearchResponse(<<r>>) : r \in SiteRecords}

\* scraped documents: shorter than the article prefix, and one character longer
ShortDoc == <<Run("x", 10)>>
LongDoc == <<Run("x", 1500), Run("y", 1)>>
Docs == {ShortDoc, LongDoc}
\* outcomes of app.scrape_url(url): an empty url cannot be fetched
ScrapeOutcomes(url) ==
    IF url = "" THEN {ScrapeFailed} ELSE {ScrapeFailed} \cup {ScrapeDoc(md) : md \in Docs}
\* the site scrape of the research stage: one document is enough there
SiteScrapeOutcomes(url) ==
    IF url = "" THEN {ScrapeFailed} ELSE {ScrapeFailed, ScrapeDoc(ShortDoc)}

\* outcomes of structured_llm.invoke
ExtractOutcomes == {ExtractFailed, ExtractOk(GoodAnalysis)}

\* answers of the tool-extraction call: every short text, and one of five names
RespAlphabet == {"a", " ", "\n"}
FiveNames == <<"a", "\n", "b", "\n", "c", "\n", "d", "\n", "e">>
ToolReplies ==
    {LLMFailed} \cup {LLMReply(c) : c \in SeqUpTo(RespAlphabet, MaxRespLen) \cup {FiveNames}}

\* answers of the recommendation call
AnalyzeReplies == {[ok |-> FALSE, content |-> ""], [ok |-> TRUE, content |-> "r"]}

\* what the environment answers while one candidate is researched; a call
\* that is not made has its outcome fixed to the failed one
CandidateEnvs ==
    {e \in [search : SiteSearchOutcomes,
            scrape : {ScrapeFailed, ScrapeDoc(ShortDoc)},
            extract : ExtractOutcomes] :
        /\ (e.search.data = <<>> => ~e.scrape.ok)
        /\ (e.search.data # <<>> =>
                e.scrape \in SiteScrapeOutcomes(Get(e.search.data[1], "url", "")))
        /\ (~e.scrape.ok => ~e.extract.ok)}

\* ------------------------------------------------------------------- state
VARIABLES
    impl,             \* which implementation runs
    pc,               \* node of the graph about to run, "Done" or "Raised"
    query,            \* ResearchState.query
    extracted_tools,  \* ResearchState.extracted_tools
    companies,        \* ResearchState.companies
    analysis,         \* ResearchState.analysis
    search_results,   \* local of _extract_tools_step: data of the article search
    all_content,      \* local of _extract_tools_step
    scraped,          \* per article result: the outcome of its scrape
    response,         \* the answer fixed for the tool-extraction call: {} or one reply
    article,          \* outcome of the article search: "none", "fail", "empty", "hits"
    tool_llm,         \* outcome of the tool-extraction call: "none", "ok", "fail"
    fallback,         \* the fallback searches issued by _research_step
    tool_names,       \* local of _research_step: the candidates
    calls,            \* per candidate processed: the calls made and their outcome
    gen_llm,          \* outcome of the recommendation call: "none", "ok", "fail"
    ran,              \* the nodes of the graph entered so far, in order
    error,            \* the exception that left the graph, "" if none
    arg,              \* the query run / process_query was called with
    delivered,        \* what the caller of run / process_query received
    creds,            \* the environment variables that are set
    workflow_agent,   \* the host's engine: "unset", "None" or "ready"
    other,            \* an unrelated request to the server: "none", "pending", "served"
    message_history,  \* MCPAgent.message_history of the one global mcp_agent
    mcp,              \* per caller: where its process_message call stands
    externo_history,  \* ExternoAgent.message_history of the one global externo_agent
    externo,          \* per caller: "idle", or "waiting" at the awaited Flowise query
    agents,           \* the globals mcp_agent, rag_agent, externo_agent, tool_mermaid_agent
    init_raised,      \* the step of initialize_agents that raised, "none" if none did
    chat              \* what the last POST /chat was answered with

vars == <<impl, pc, query, extracted_tools, companies, analysis, search_results,
          all_content, scraped, response, article, tool_llm, fallback, tool_names, calls, gen_llm,
          ran, error, arg, delivered, creds, workflow_agent, other, message_history, mcp,
          externo_history, externo, agents, init_raised, chat>>

\* the MCP agent's conversation
chat_vars == <<message_history, mcp, externo_history, externo, agents, init_raised, chat>>

\* the state of the host around the engine
outer == <<creds, workflow_agent, other, chat_vars>>

\* the callers of the chat endpoint
Callers == {"c1", "c2"}

\* the message MCPAgent.__init__ puts first in message_history
SystemPrompt == [role |-> "system", content |-> "system"]

\* a process_message call that has not started
NoCall == [st |-> "idle", sent |-> <<>>, reply |-> ""]

\* the MCP agent and the external agent after construction, no request yet
ChatIdle ==
    /\ message_history = <<SystemPrompt>>
    /\ mcp = [c \in Callers |-> NoCall]
    /\ externo_history = <<>>
    /\ externo = [c \in Callers |-> "idle"]

\* the agents of the web application next to the workflow agent
OtherAgents == {"mcp", "rag", "externo", "mermaid"}

\* no POST /chat has been answered
NoChat == [agent_type |-> "", blank |-> FALSE, http |-> 0, status |-> "", invoked |-> "none"]

\* the module globals as the import leaves them: mcp_agent = None, ...
AppUnstarted ==
    /\ agents = [a \in OtherAgents |-> "None"]
    /\ init_raised = "none"
    /\ chat = NoChat

\* the globals after a startup with FIRECRAWL_API_KEY and OPENAI_API_KEY set,
\* PINECONE_API_KEY not set, in which nothing raised
AppStarted ==
    /\ agents = [a \in OtherAgents |-> IF a = "rag" THEN "None" ELSE "set"]
    /\ init_raised = "none"
    /\ chat = NoChat

state_vars == <<query, extracted_tools, companies, analysis>>
extract_locals == <<search_results, all_content, scraped, response>>
research_ghost == <<fallback, tool_names, calls>>
\* the run of the workflow engine, and the host around it
run_vars == <<impl, pc, state_vars, extract_locals, article, tool_llm, research_ghost,
              gen_llm, ran, error, arg, delivered>>
host_vars == <<creds, workflow_agent, other>>
mcp_vars == <<message_history, mcp>>
externo_vars == <<externo_history, externo>>
app_vars == <<agents, init_raised, chat>>

\* ------------------------------------------------- what the caller receives
\* Workflow.run: return ResearchState(**final_state)
RunReturn(q, tools, comps, an) ==
    [kind |-> "state", query |-> q, extracted_tools |-> tools, companies |-> comps,
     analysis |-> an]

\* one company of the answer WorkflowAgent.process_query formats; a line that
\* is left out is the empty text
FormatCompany(c) ==
    [name |-> c.name,
     website |-> c.website,
     pricing |-> IF c.pricing_model \in {None, ""} THEN "N/A" ELSE c.pricing_model,
     open_source |-> IF c.is_open_source = PyTrue THEN "Sim"
                     ELSE IF c.is_open_source = PyFalse THEN "Não" ELSE "N/A",
     tech |-> Take(c.tech_stack, ShownItems),
     languages |-> Take(c.language_support, ShownItems),
     api |-> IF c.api_available = None THEN ""
             ELSE IF c.api_available = PyTrue THEN "Disponível" ELSE "Não disponível",
     description |-> IF c.description \notin {"", "Análise falhou"}
                     THEN c.description ELSE ""]

\* the answer of WorkflowAgent.process_query: the header with the query it
\* was called with, the companies, and the recommendations if there are any
ProcessQueryText(q, comps, an) ==
    [kind |-> "text", query |-> q,
     companies |-> [i \in 1..Len(comps) |-> FormatCompany(comps[i])],
     analysis |-> IF an \in {None, ""} THEN "" ELSE an]

\* what the caller gets when the graph reached END
Returned(im, q, final) ==
    IF im = "Workflow"
    THEN RunReturn(final.query, final.extracted_tools, final.companies, final.analysis)
    ELSE ProcessQueryText(q, final.companies, final.analysis)

\* an error path that hands over the state reached so far
PartialOnError(im, e) ==
    Returned(im, arg, [query |-> query, extracted_tools |-> extracted_tools,
                       companies |-> companies, analysis |-> analysis])

\* what the caller gets when an exception left the graph: Workflow.run lets
\* it through, WorkflowAgent.process_query turns it into an error text
Thrown(im, e) ==
    IF im = "Workflow" THEN [kind |-> "exception", error |-> e]
    ELSE [kind |-> "error_text", error |-> e]

\* what the caller gets when the run is interrupted: KeyboardInterrupt and
\* task cancellation are BaseExceptions, which no "except Exception" of the
\* stages, of search_companies or of process_query catches
Interrupted == [kind |-> "exception", error |-> "KeyboardInterrupt"]

\* nothing has been handed to the caller
NoResult == [kind |-> "none"]

\* the environment variables the constructors read
Keys == {"FIRECRAWL_API_KEY", "OPENAI_API_KEY"}


\* ResearchState(query=query); the graph starts at its entry point
Init ==
    /\ impl \in Impls
    /\ arg \in Queries
    /\ query = ResearchState(arg).query
    /\ pc = "extract_tools"
    /\ extracted_tools = ResearchState(arg).extracted_tools
    /\ companies = ResearchState(arg).companies
    /\ analysis = ResearchState(arg).analysis
    /\ search_results = <<>>
    /\ all_content = <<>>
    /\ scraped = <<>>
    /\ response = {}
    /\ article = "none"
    /\ tool_llm = "none"
    /\ fallback = <<>>
    /\ tool_names = <<>>
    /\ calls = <<>>
    /\ gen_llm = "none"
    /\ ran = <<>>
    /\ error = ""
    /\ delivered = NoResult
    /\ creds = Keys
    /\ workflow_agent = "ready"
    /\ other = "none"
    /\ ChatIdle
    /\ AppStarted

\* an exception leaves the node; nothing catches it inside the graph
Raise(e) ==
    /\ pc' = "Raised"
    /\ error' = e
    /\ delivered' = Thrown(impl, e)


\* ------------------------------------------------------ stage extract_tools
\* the loop body's use of a scraped document: WorkflowAgent appends the
\* prefix (all_content += ...), Workflow evaluates the sum and drops it
AddContent(im, acc, md) ==
    IF im = "Workflow" THEN acc ELSE acc \o TakeRuns(md, ArticleChars) \o <<Run("\n", 2)>>

\* for result in search_results.data: scrape, and add the content if scraped
RECURSIVE Accumulate(_, _, _, _, _)
Accumulate(im, data, scr, i, acc) ==
    IF i > Len(data) THEN acc
    ELSE Accumulate(im, data, scr, i + 1,
                    IF scr[i].ok THEN AddContent(im, acc, scr[i].markdown) ELSE acc)

\* _extract_tools_step up to the point where the messages are built:
\* the article search and the scrape of every result
ExtractGather ==
    /\ pc = "extract_tools"
    /\ \E out \in ArticleSearchOutcomes :
         LET sr == search_companies(out) IN
         /\ article' = IF ~out.ok THEN "fail" ELSE IF out.data = <<>> THEN "empty" ELSE "hits"
         /\ IF impl = "Workflow" /\ sr.kind = "list"
            THEN \* [].data
                 /\ Raise("AttributeError")
                 /\ UNCHANGED <<search_results, all_content, scraped>>
            ELSE LET data == IF HasData(sr) THEN sr.data ELSE <<>> IN
                 \E scr \in [1..Len(data) -> UNION {ScrapeOutcomes(u) : u \in {"", "u"}}] :
                   /\ \A i \in 1..Len(data) :
                          scr[i] \in ScrapeOutcomes(Get(data[i], "url", ""))
                   /\ search_results' = data
                   /\ scraped' = scr
                   /\ all_content' = Accumulate(impl, data, scr, 1, <<>>)
                   /\ pc' = "extract_llm"
                   /\ UNCHANGED <<error, delivered>>
    /\ ran' = Append(ran, "extract_tools")
    /\ UNCHANGED <<impl, state_vars, response, tool_llm, research_ghost, gen_llm, arg, outer>>

\* the try/except around llm.invoke and the parse: the names, or [] when
\* the call raised
ToolsFrom(r) == IF r.ok THEN ParseToolNames(r.content) ELSE <<>>

\* the rest of _extract_tools_step with r the outcome of llm.invoke: the
\* parse of the answer and the return of the state update
InvokeWith(r) ==
    /\ extracted_tools' = ToolsFrom(r)
    /\ tool_llm' = IF r.ok THEN "ok" ELSE "fail"
    /\ pc' = "research"
    /\ search_results' = <<>>
    /\ all_content' = <<>>
    /\ scraped' = <<>>
    /\ UNCHANGED <<impl, query, companies, analysis, response, article, research_ghost,
                   gen_llm, ran, error, arg, delivered, outer>>

\* the rest of _extract_tools_step, whatever llm.invoke does
ExtractInvoke == pc = "extract_llm" /\ \E r \in ToolReplies : InvokeWith(r)

\* ----------------------------------------------------------- stage research
\* the candidate name taken from one result of the fallback search
FallbackTitle(im, result) ==
    IF im = "Workflow"
    THEN Get(Get(result, "metadata", EmptyDict), "title", Unknown)
    ELSE Get(Get(result, "metadata", EmptyDict), "title",
             Get(result, "title", Unknown))

\* an analysis that hands on whatever the structured call carried
AnalyzeCompanyContentUnguarded(im, out) == out.value

\* _analyze_company_content: the model's analysis, or the sentinel
AnalyzeCompanyContent(im, out) == IF out.ok THEN out.value ELSE SentinelAnalysis(im)

\* the copy with "company.description = analysis.description" left out
CopyAnalysisKeepDescription(company, a) ==
    [company EXCEPT !.pricing_model = a.pricing_model,
                    !.is_open_source = a.is_open_source,
                    !.tech_stack = a.tech_stack,
                    !.api_available = a.api_available,
                    !.language_support = a.language_support,
                    !.integration_capabilities = a.integration_capabilities]

\* company.<field> = analysis.<field> for the seven analysis fields
CopyAnalysis(company, a) ==
    [company EXCEPT !.pricing_model = a.pricing_model,
                    !.is_open_source = a.is_open_source,
                    !.tech_stack = a.tech_stack,
                    !.description = a.description,
                    !.api_available = a.api_available,
                    !.language_support = a.language_support,
                    !.integration_capabilities = a.integration_capabilities]

\* is the body of "if <search found something>" entered
SiteFound(im, tsr) == IF im = "Workflow" THEN Truthy(tsr) ELSE HasData(tsr)

\* the url read from the first result of the official-site search
SiteUrl(result) == Get(result, "url", "")

\* one iteration of the loop over tool_names, the environment answering e:
\* the companies appended (none or one), the calls made, and whether the
\* iteration raised
ResearchCandidate(im, tool_name, e) ==
    LET tsr == search_companies(e.search)
        noCall == [name |-> tool_name, search |-> IF e.search.ok THEN "empty" ELSE "fail",
                   url |-> "", snippet |-> "", scrape |-> "none", extract |-> "none"]
    IN
    IF ~SiteFound(im, tsr)
    THEN [companies |-> <<>>, call |-> noCall, raised |-> FALSE]
    ELSE IF tsr.data = <<>>
    THEN \* tool_search_results.data[0] on an empty list
         [companies |-> <<>>, call |-> noCall, raised |-> TRUE]
    ELSE LET result == tsr.data[1]
             url == SiteUrl(result)
             snippet == Get(result, "markdown", "")
             company == CompanyInfo(tool_name, snippet, url)
         IN  IF ~e.scrape.ok
             THEN [companies |-> <<company>>,
                   call |-> [name |-> tool_name, search |-> "hit", url |-> url,
                             snippet |-> snippet, scrape |-> "fail", extract |-> "none"],
                   raised |-> FALSE]
             ELSE [companies |-> <<CopyAnalysis(company, AnalyzeCompanyContent(im, e.extract))>>,
                   call |-> [name |-> tool_name, search |-> "hit", url |-> url,
                             snippet |-> snippet, scrape |-> "ok",
                             extract |-> IF e.extract.ok THEN "ok" ELSE "fail"],
                   raised |-> FALSE]

\* a loop that searches a second time when the official-site search failed
RECURSIVE ResearchFromRetrying(_, _, _, _, _)
ResearchFromRetrying(im, names, env, i, acc) ==
    IF i > Len(names) THEN acc
    ELSE LET step == ResearchCandidate(im, names[i], env[i])
             made == IF step.call.search = "fail" THEN <<step.call, step.call>>
                     ELSE <<step.call>>
         IN  ResearchFromRetrying(im, names, env, i + 1,
                                  [companies |-> acc.companies \o step.companies,
                                   calls |-> acc.calls \o made,
                                   raised |-> FALSE])

\* the loop "for tool_name in tool_names" from candidate i on
RECURSIVE ResearchFrom(_, _, _, _, _)
ResearchFrom(im, names, env, i, acc) ==
    IF i > Len(names) THEN acc
    ELSE LET step == ResearchCandidate(im, names[i], env[i]) IN
         IF step.raised
         THEN [companies |-> acc.companies, calls |-> Append(acc.calls, step.call),
               raised |-> TRUE]
         ELSE ResearchFrom(im, names, env, i + 1,
                           [companies |-> acc.companies \o step.companies,
                            calls |-> Append(acc.calls, step.call),
                            raised |-> FALSE])

\* the candidates when extracted_tools is not empty
SliceTools(tools) == Take(tools, MaxTools)

\* the candidates taken from the results of the fallback search
FallbackNames(im, data) == [i \in 1..Len(data) |-> FallbackTitle(im, data[i])]

\* the fallback search: its query, its bound, and the results it returned
FallbackCall(q, data) == [query |-> q, num_results |-> FallbackLimit, data |-> data]

\* a research stage without the fallback branch
NeverFallback(tools) == FALSE

\* "if not extracted_tools": is the fallback branch of _research_step taken
UseFallback(tools) == tools = <<>>

\* a research node that also stores the four candidates it worked on
UpdateCompaniesAndTools(comps) ==
    /\ companies' = comps
    /\ extracted_tools' = SliceTools(extracted_tools)
    /\ UNCHANGED <<query, analysis>>

\* return {"companies": companies}: the graph merges that one key into the state
UpdateCompanies(comps) ==
    /\ companies' = comps
    /\ UNCHANGED <<query, extracted_tools, analysis>>

\* the loop over the candidates and the return of the state update
ResearchLoop(names, fb) ==
    \E env \in [1..Len(names) -> CandidateEnvs] :
      LET r == ResearchFrom(impl, names, env, 1,
                            [companies |-> <<>>, calls |-> <<>>, raised |-> FALSE])
      IN  /\ tool_names' = names
          /\ fallback' = fb
          /\ calls' = r.calls
          /\ IF r.raised
             THEN Raise("IndexError") /\ UNCHANGED state_vars
             ELSE UpdateCompanies(r.companies) /\ pc' = "analyze" /\ UNCHANGED <<error, delivered>>

\* _research_step
ResearchStep ==
    /\ pc = "research"
    /\ IF UseFallback(extracted_tools)
       THEN \E out \in FallbackSearchOutcomes :
              LET sr == search_companies(out) IN
              IF impl = "Workflow" /\ sr.kind = "list"
              THEN \* [].data
                   /\ Raise("AttributeError")
                   /\ fallback' = <<FallbackCall(query, <<>>)>>
                   /\ UNCHANGED <<state_vars, tool_names, calls>>
              ELSE LET data == IF HasData(sr) THEN sr.data ELSE <<>> IN
                   ResearchLoop(FallbackNames(impl, data), <<FallbackCall(query, data)>>)
       ELSE ResearchLoop(SliceTools(extracted_tools), <<>>)
    /\ ran' = Append(ran, "research")
    /\ UNCHANGED <<impl, extract_locals, article, tool_llm, gen_llm, arg, outer>>

\* ------------------------------------------------------------ stage analyze
\* the analyze node returns {"analysis": an}: the graph reaches END and the
\* caller is handed the final state
Finish(an) ==
    /\ analysis' = an
    /\ pc' = "Done"
    /\ delivered' = Returned(impl, arg, [query |-> query, extracted_tools |-> extracted_tools,
                                      companies |-> companies, analysis |-> an])
    /\ UNCHANGED error

\* _analyze_step: Workflow calls llm.invoke bare, WorkflowAgent in try/except
AnalyzeStep ==
    /\ pc = "analyze"
    /\ \E r \in AnalyzeReplies :
         /\ gen_llm' = IF r.ok THEN "ok" ELSE "fail"
         /\ IF r.ok
            THEN Finish(r.content)
            ELSE IF impl = "Workflow"
            THEN Raise("LLMError") /\ UNCHANGED analysis
            ELSE Finish(FallbackAnalysis)
    /\ ran' = Append(ran, "analyze")
    /\ UNCHANGED <<impl, query, extracted_tools, companies, extract_locals, article,
                   tool_llm, research_ghost, arg, outer>>

Next == ExtractGather \/ ExtractInvoke \/ ResearchStep \/ AnalyzeStep

Spec == Init /\ [][Next]_vars

\* -------------------------------------------- the parse of a known answer
\* _extract_tools_step at llm.invoke, after an article search without
\* results, with the answer the call is going to get fixed beforehand
InitParse ==
    /\ impl \in Impls
    /\ arg \in Queries
    /\ query = ResearchState(arg).query
    /\ pc = "extract_llm"
    /\ extracted_tools = ResearchState(arg).extracted_tools
    /\ companies = ResearchState(arg).companies
    /\ analysis = ResearchState(arg).analysis
    /\ search_results = <<>>
    /\ all_content = <<>>
    /\ scraped = <<>>
    /\ response \in {{r} : r \in ToolReplies}
    /\ article = "empty"
    /\ tool_llm = "none"
    /\ fallback = <<>>
    /\ tool_names = <<>>
    /\ calls = <<>>
    /\ gen_llm = "none"
    /\ ran = <<"extract_tools">>
    /\ error = ""
    /\ delivered = NoResult
    /\ creds = Keys
    /\ workflow_agent = "ready"
    /\ other = "none"
    /\ ChatIdle
    /\ AppStarted

\* llm.invoke returns or raises as fixed, and the stage goes on from there
ParseReply == pc = "extract_llm" /\ \E r \in response : InvokeWith(r)

NextParse == ParseReply

\* the first stage from its model call on, for every answer of the model
SpecParse == InitParse /\ [][NextParse]_vars

\* ------------------------------------------------------------ interruption
\* the caller interrupts the run while a stage is executing: the exception
\* leaves the node, the graph and run / process_query
Cancel ==
    /\ pc \in {"extract_tools", "extract_llm", "research", "analyze"}
    /\ pc' = "Cancelled"
    /\ error' = "KeyboardInterrupt"
    /\ delivered' = Interrupted
    /\ UNCHANGED <<impl, state_vars, extract_locals, article, tool_llm, research_ghost,
                   gen_llm, ran, arg, outer>>

NextCancel == Next \/ Cancel

\* one run that the caller may interrupt
SpecCancel == Init /\ [][NextCancel]_vars


\* ------------------------------------------------- the engine in its host
\* Workflow is built and called by main() (main.py), WorkflowAgent by the web
\* application (app.py: initialize_agents at startup, chat_endpoint per request).

\* a constructor without the credential checks
ConstructUnchecked(im, env) == "ok"

\* the constructor: "ok" or the exception it raises.  WorkflowAgent.__init__
\* tests both variables itself; Workflow.__init__ builds FirecrawlService,
\* which tests FIRECRAWL_API_KEY, and ChatOpenAI, which refuses to be built
\* without OPENAI_API_KEY
Construct(im, env) ==
    IF "FIRECRAWL_API_KEY" \notin env THEN "ValueError"
    ELSE IF "OPENAI_API_KEY" \notin env
    THEN (IF im = "WorkflowAgent" THEN "ValueError" ELSE "OpenAIError")
    ELSE "ok"

\* the queries of the first call and of the calls after it
LaterQueries == {"q2"}

\* a run that goes on from the state the previous run left
ContinueRun(q, old) == [old EXCEPT !.query = q]

\* initial_state = ResearchState(query=query): the state a run starts from,
\* whatever state the previous run on this engine ended in
InitialState(q, old) == ResearchState(q)

\* no run has been started: there is no ResearchState yet
NoRun ==
    /\ arg = ""
    /\ query = ""
    /\ extracted_tools = <<>>
    /\ companies = <<>>
    /\ analysis = None
    /\ search_results = <<>>
    /\ all_content = <<>>
    /\ scraped = <<>>
    /\ response = {}
    /\ article = "none"
    /\ tool_llm = "none"
    /\ fallback = <<>>
    /\ tool_names = <<>>
    /\ calls = <<>>
    /\ gen_llm = "none"
    /\ ran = <<>>
    /\ error = ""
    /\ delivered = NoResult

\* before the host started: no engine, no run
InitEngine ==
    /\ impl \in Impls
    /\ creds \in SUBSET Keys
    /\ workflow_agent = "unset"
    /\ pc = "startup"
    /\ other = "none"
    /\ ChatIdle
    /\ AppUnstarted
    /\ NoRun

\* main(): workflow = Workflow(), an exception ends the program;
\* initialize_agents(): WorkflowAgent() only if both variables are set, inside
\* a try that leaves the global at None
Startup ==
    /\ pc = "startup"
    /\ IF impl = "Workflow"
       THEN IF Construct(impl, creds) = "ok"
            THEN workflow_agent' = "ready" /\ pc' = "idle" /\ UNCHANGED error
            ELSE pc' = "Exited" /\ error' = Construct(impl, creds) /\ UNCHANGED workflow_agent
       ELSE /\ workflow_agent' = IF Keys \subseteq creds /\ Construct(impl, creds) = "ok"
                                 THEN "ready" ELSE "None"
            /\ pc' = "idle"
            /\ UNCHANGED error
    /\ UNCHANGED <<impl, state_vars, extract_locals, article, tool_llm, research_ghost,
                   gen_llm, ran, arg, delivered, creds, other, chat_vars>>

\* can the host start another run: main() is left by an exception of run,
\* chat_endpoint serves the next request whatever the last one did
HostAlive == pc \in {"idle", "Done"} \/ (pc = "Raised" /\ impl = "WorkflowAgent")

\* workflow.run(query) / workflow_agent.process_query(message) is called:
\* a new ResearchState enters the graph
NewRun ==
    /\ HostAlive
    /\ workflow_agent = "ready"
    /\ arg' \in IF pc = "idle" THEN Queries ELSE LaterQueries
    /\ LET old == [query |-> query, extracted_tools |-> extracted_tools,
                   companies |-> companies, analysis |-> analysis]
           new == InitialState(arg', old)
       IN  /\ query' = new.query
           /\ extracted_tools' = new.extracted_tools
           /\ companies' = new.companies
           /\ analysis' = new.analysis
    /\ pc' = "extract_tools"
    /\ search_results' = <<>>
    /\ all_content' = <<>>
    /\ scraped' = <<>>
    /\ response' = {}
    /\ article' = "none"
    /\ tool_llm' = "none"
    /\ fallback' = <<>>
    /\ tool_names' = <<>>
    /\ calls' = <<>>
    /\ gen_llm' = "none"
    /\ ran' = <<>>
    /\ error' = ""
    /\ delivered' = NoResult
    /\ UNCHANGED <<impl, outer>>

\* chat_endpoint with agent_type "workflow" while workflow_agent is None
Unavailable ==
    /\ pc = "idle"
    /\ impl = "WorkflowAgent"
    /\ workflow_agent = "None"
    /\ delivered' = [kind |-> "unavailable"]
    /\ UNCHANGED <<impl, pc, state_vars, extract_locals, article, tool_llm, research_ghost,
                   gen_llm, ran, error, arg, outer>>

NextEngine == Startup \/ NewRun \/ Unavailable \/ Next

\* the host from its start: construction, then calls one after the other
SpecEngine == InitEngine /\ [][NextEngine]_vars

\* --------------------------------------------------- the server's event loop
\* chat_endpoint and process_query are coroutines on the server's event loop.
\* The loop runs one coroutine until it awaits; process_query calls
\* workflow.invoke, and through it every search, scrape and model call,
\* synchronously, so from its start to its return it never gives the loop back.
LoopBusy == pc \in {"extract_tools", "extract_llm", "research", "analyze"}

\* the web application after startup with both credentials set
InitServer ==
    /\ impl = "WorkflowAgent"
    /\ creds = Keys
    /\ workflow_agent = "ready"
    /\ pc = "idle"
    /\ other = "none"
    /\ ChatIdle
    /\ AppStarted
    /\ NoRun

\* the workflow request: chat_endpoint calls process_query
Request == pc = "idle" /\ NewRun

\* a request that has nothing to do with the workflow reaches the server
OtherArrives ==
    /\ other = "none"
    /\ other' = "pending"
    /\ UNCHANGED <<impl, pc, state_vars, extract_locals, article, tool_llm, research_ghost,
                   gen_llm, ran, error, arg, delivered, creds, workflow_agent, chat_vars>>

\* the event loop runs the handler of the other request
ServeOther ==
    /\ other = "pending"
    /\ ~LoopBusy
    /\ other' = "served"
    /\ UNCHANGED <<impl, pc, state_vars, extract_locals, article, tool_llm, research_ghost,
                   gen_llm, ran, error, arg, delivered, creds, workflow_agent, chat_vars>>

NextServer == Request \/ OtherArrives \/ ServeOther \/ Next

\* one workflow request and one unrelated request on the same server
SpecServer == InitServer /\ [][NextServer]_vars

\* ---------------------------------------------------------- the MCP agent
\* chat_endpoint hands every "mcp" request, whoever sent it, to the one
\* global mcp_agent.  process_message gives the event loop back at each await,
\* so the calls of two callers interleave between the steps below.

\* process_message up to its first await: the user's message is appended to
\* self.message_history
McpReceive(c) ==
    /\ mcp[c].st \in {"idle", "done"}
    /\ Len(message_history) < MaxHistory
    /\ message_history' = Append(message_history, [role |-> "user", content |-> c])
    /\ mcp' = [mcp EXCEPT ![c] = [st |-> "connecting", sent |-> <<>>, reply |-> ""]]

\* the MCP session is opened and the tools are loaded, then
\* agent.ainvoke({"messages": self.message_history}) is called with the
\* history as it is at that moment; an exception on the way is answered with
\* the error message
McpInvoke(c) ==
    /\ mcp[c].st = "connecting"
    /\ \/ /\ mcp' = [mcp EXCEPT ![c] = [st |-> "invoking", sent |-> message_history,
                                         reply |-> ""]]
       \/ /\ mcp' = [mcp EXCEPT ![c] = [st |-> "done", sent |-> <<>>, reply |-> "error"]]
    /\ UNCHANGED message_history

\* the agent answers: the answer is appended to self.message_history and
\* returned; if ainvoke raised, the error message is returned
McpReply(c) ==
    /\ mcp[c].st = "invoking"
    /\ \/ /\ Len(message_history) < MaxHistory
          /\ message_history' =
                 Append(message_history, [role |-> "assistant", content |-> c])
          /\ mcp' = [mcp EXCEPT ![c].st = "done", ![c].reply = "answer"]
       \/ /\ mcp' = [mcp EXCEPT ![c].st = "done", ![c].reply = "error"]
          /\ UNCHANGED message_history

\* process_message for some caller
ProcessMessage ==
    /\ \E c \in Callers : McpReceive(c) \/ McpInvoke(c) \/ McpReply(c)
    /\ UNCHANGED <<run_vars, host_vars, externo_vars, app_vars>>

\* a reset that drops the system message too
KeepNothing(h) == <<>>

\* [self.message_history[0]]
KeepSystemMessage(h) == <<h[1]>>

\* reset_conversation: a new list with the first entry of the old one; the
\* calls in progress go on and append to the new list
McpReset ==
    /\ message_history' = KeepSystemMessage(message_history)
    /\ UNCHANGED <<run_vars, host_vars, externo_vars, app_vars, mcp>>

NextChat == ProcessMessage \/ McpReset

\* the chat requests of the callers to the MCP agent
SpecChat == InitServer /\ [][NextChat]_vars

\* ------------------------------------------------------- the external agent
\* chat_endpoint hands every "externo" request to the one global
\* externo_agent; POST /externo/reset calls its reset_conversation.

\* "if len(self.message_history) > 10": the length the history is cut to
HistoryLimit == 10

\* the messages a caller sends: a text, and a blank one
ExternoMessages == {"m", " "}

\* self.message_history[-n:]
KeepLast(h, n) == IF Len(h) > n THEN SubSeq(h, Len(h) - n + 1, Len(h)) ELSE h

\* process_message up to the awaited Flowise query: a blank message is
\* answered at once; otherwise the user's message is appended and the
\* history is cut to its last ten entries
ExternoReceive(c) ==
    /\ externo[c] = "idle"
    /\ \E m \in ExternoMessages :
         IF m = " "
         THEN UNCHANGED externo_vars
         ELSE /\ externo_history' =
                     KeepLast(Append(externo_history, [role |-> "user", content |-> m]),
                              HistoryLimit)
              /\ externo' = [externo EXCEPT ![c] = "waiting"]

\* the query returns a FlowiseResponse, an answer or an error text (it
\* catches every exception itself): the text is appended as the assistant's
\* message, and the formatted text is returned
ExternoReply(c) ==
    /\ externo[c] = "waiting"
    /\ \E text \in {"answer", "error"} :
         externo_history' = Append(externo_history, [role |-> "assistant", content |-> text])
    /\ externo' = [externo EXCEPT ![c] = "idle"]

\* process_message of the external agent for some caller
ExternoProcessMessage ==
    /\ \E c \in Callers : ExternoReceive(c) \/ ExternoReply(c)
    /\ UNCHANGED <<run_vars, host_vars, mcp_vars, app_vars>>

\* reset_conversation: the history is emptied, whatever call is in progress
ExternoReset ==
    /\ externo_history' = <<>>
    /\ UNCHANGED <<run_vars, host_vars, mcp_vars, app_vars, externo>>

NextExterno == ExternoProcessMessage \/ ExternoReset

\* the chat and reset requests of the callers to the external agent
SpecExterno == InitServer /\ [][NextExterno]_vars

\* ------------------------------------------- the web application as a whole
\* startup_event awaits initialize_agents; POST /chat is chat_endpoint.

\* the values of agent_type chat_endpoint has a branch for, in the order in
\* which initialize_agents builds the agents
AgentOrder == <<"mcp", "workflow", "rag", "externo", "mermaid">>
AgentTypes == {AgentOrder[i] : i \in 1..Len(AgentOrder)}

\* the statements of the try block of initialize_agents that can raise
StartupSteps == <<"mcp", "workflow", "rag", "rag.initialize", "externo", "mermaid">>
\* the global a statement is about
AgentOf(step) == IF step = "rag.initialize" THEN "rag" ELSE step

\* the environment variables initialize_agents tests
AppKeys == Keys \cup {"PINECONE_API_KEY"}

\* the "if os.getenv(...)" in front of each agent: is the agent built at all
Wanted(a, env) ==
    IF a \in {"mcp", "workflow"} THEN Keys \subseteq env
    ELSE IF a = "rag" THEN {"PINECONE_API_KEY", "OPENAI_API_KEY"} \subseteq env
    ELSE IF a = "mermaid" THEN "OPENAI_API_KEY" \in env
    ELSE TRUE

\* the statement that raises when the environment makes statement f fail:
\* f itself if control gets to it, "none" if its agent is not built
RaisedStep(f, env) == IF f # "none" /\ Wanted(AgentOf(f), env) THEN f ELSE "none"

\* the place of a statement in the try block
StepIndex(step) == CHOOSE i \in 1..Len(StartupSteps) : StartupSteps[i] = step

\* is the assignment "<global> = Agent()" executed when statement r raises:
\* the statements before r run, r and those after it do not
Assigned(a, env, r) ==
    /\ Wanted(a, env)
    /\ r # "none" => StepIndex(a) < StepIndex(r)

\* initialize_agents: the five agents are built in order inside one try;
\* except Exception prints the error, so the startup goes on
InitializeAgents ==
    /\ pc = "startup"
    /\ \E f \in {"none"} \cup {StartupSteps[i] : i \in 1..Len(StartupSteps)} :
         LET r == RaisedStep(f, creds) IN
         /\ agents' = [a \in OtherAgents |-> IF Assigned(a, creds, r) THEN "set" ELSE "None"]
         /\ workflow_agent' = IF Assigned("workflow", creds, r) THEN "ready" ELSE "None"
         /\ init_raised' = r
    /\ pc' = "idle"
    /\ UNCHANGED <<impl, state_vars, extract_locals, article, tool_llm, research_ghost,
                   gen_llm, ran, error, arg, delivered, creds, other, mcp_vars,
                   externo_vars, chat>>

\* "if not <agent>": is the global of agent type t set
IsSet(t) == IF t = "workflow" THEN workflow_agent = "ready" ELSE agents[t] = "set"

\* the messages and agent types a client posts
ChatMessages == {<<"m">>, <<" ", "m">>, <<" ">>, <<>>}
PostedTypes == AgentTypes \cup {"other"}

\* chat_endpoint for agent_type t and message m; ok says whether the agent's
\* method, if it is called, returns or raises
ChatEndpoint(t, m, ok) ==
    IF Strip(m) = <<>>
    THEN \* raise HTTPException(400) in front of the try
         [agent_type |-> t, blank |-> TRUE, http |-> 400, status |-> "", invoked |-> "none"]
    ELSE IF t \in AgentTypes /\ ~IsSet(t)
    THEN [agent_type |-> t, blank |-> FALSE, http |-> 200, status |-> "error",
          invoked |-> "none"]
    ELSE IF t \in AgentTypes
    THEN [agent_type |-> t, blank |-> FALSE, http |-> 200,
          status |-> IF ok THEN "success" ELSE "error", invoked |-> t]
    ELSE \* raise HTTPException(400) inside the try: "except Exception" catches
         \* it and returns a ChatResponse
         [agent_type |-> t, blank |-> FALSE, http |-> 200, status |-> "error",
          invoked |-> "none"]

\* POST /chat
ChatRequest ==
    /\ pc = "idle"
    /\ \E t \in PostedTypes, m \in ChatMessages, ok \in BOOLEAN :
         chat' = ChatEndpoint(t, m, ok)
    /\ UNCHANGED <<run_vars, host_vars, mcp_vars, externo_vars, agents, init_raised>>

\* the application before its startup event, whatever variables are set
InitApp ==
    /\ impl = "WorkflowAgent"
    /\ creds \in SUBSET AppKeys
    /\ workflow_agent = "unset"
    /\ pc = "startup"
    /\ other = "none"
    /\ ChatIdle
    /\ AppUnstarted
    /\ NoRun

NextApp == InitializeAgents \/ ChatRequest

\* the startup and the chat requests after it
SpecApp == InitApp /\ [][NextApp]_vars

\* ------------------------------------------------------------------ claims
\* has the research node been entered
ResearchRan == \E i \in 1..Len(ran) : ran[i] = "research"
\* did an exception leave the research node
ResearchRaised == pc = "Raised" /\ ran # <<>> /\ ran[Len(ran)] = "research"
\* the candidates whose official-site search returned a result, in order
IsHit(c) == c.search = "hit"
Hits == SelectSeq(calls, IsHit)
\* the names of a sequence of records with a name field
NamesOf(seq) == [i \in 1..Len(seq) |-> seq[i].name]
\* every candidate was processed, in order, and companies holds one entry
\* per candidate whose search returned a result
EveryCandidateResearched ==
    /\ ~ResearchRaised
    /\ NamesOf(calls) = tool_names
    /\ NamesOf(companies) = NamesOf(Hits)
\* no structured extraction of the run succeeded
AllExtractFailed == \A i \in 1..Len(calls) : calls[i].extract # "ok"
\* the analysis fields of a CompanyInfo are the full sentinel
IsFullSentinel(c) ==
    /\ \/ impl = "Workflow" /\ c.description = "Falhou" /\ c.pricing_model = "Unknown"
       \/ /\ impl = "WorkflowAgent"
          /\ c.description = "Análise falhou" /\ c.pricing_model = "Desconhecido"
    /\ c.is_open_source = None /\ c.api_available = None
    /\ c.tech_stack = <<>> /\ c.language_support = <<>>
    /\ c.integration_capabilities = <<>>
\* the analysis fields of a CompanyInfo are all at their defaults
IsUnanalysed(c) ==
    /\ c.pricing_model = None
    /\ c.is_open_source = None /\ c.api_available = None
    /\ c.tech_stack = <<>> /\ c.language_support = <<>>
    /\ c.integration_capabilities = <<>>

\* C1: Workflow.run never raises for a recoverable per-call failure: whatever
\* search, scrape, structured extraction or text generation fails, no
\* exception leaves the graph.
C1_RunNeverRaises == impl = "Workflow" => pc # "Raised"

\* C2: every returned ResearchState has at most 4 companies, on the
\* extracted-tools path and on the fallback path, however many results the
\* search returned.
C2_AtMostFourCompanies == pc = "Done" => Len(companies) <= 4

\* C3: whenever the pipeline returns, analysis is set (never None), also when
\* companies is empty.
C3_AnalysisAlwaysSet == pc = "Done" => analysis # None
C3_Witness ==
    /\ pc = "Done" /\ companies = <<>>
    /\ gen_llm = "fail" /\ analysis = "Não foi possível gerar recomendações no momento."

\* C4: when the text generator fails in the analyze stage, analysis is the
\* fixed fallback string and the pipeline reaches Done without raising.
C4_GeneratorFailureFallsBack ==
    gen_llm = "fail" =>
        (pc = "Done" /\ analysis = "Não foi possível gerar recomendações no momento.")

\* the names the claim allows for a candidate taken from a fallback result:
\* its title, or the placeholder when it has none
AllowedNames(r) ==
    IF "metadata" \in r.keys /\ "title" \in r.metadata.keys THEN {r.metadata.title}
    ELSE IF "title" \in r.keys THEN {r.title, Unknown}
    ELSE {Unknown}

\* C5: when the research stage starts with extracted_tools empty it issues one
\* direct search on the original query with bound 4, takes the result titles
\* (the placeholder where there is none) as candidates, researches each of
\* them, and companies holds the entries of that research.
C5_FallbackResearch ==
    (ResearchRan /\ extracted_tools = <<>>) =>
        /\ Len(fallback) = 1
        /\ fallback[1].query = query /\ fallback[1].num_results = 4
        /\ Len(tool_names) = Len(fallback[1].data)
        /\ \A i \in 1..Len(tool_names) : tool_names[i] \in AllowedNames(fallback[1].data[i])
        /\ EveryCandidateResearched

\* C6: if the structured extractor fails for every candidate of a run, every
\* CompanyInfo whose site was scraped carries the full sentinel, and no
\* CompanyInfo is partially populated: each is the full sentinel or has all
\* its analysis fields at their defaults.
C6_SentinelIsComplete ==
    (AllExtractFailed /\ Len(companies) = Len(Hits)) =>
        \A j \in 1..Len(companies) :
            /\ Hits[j].scrape = "ok" => IsFullSentinel(companies[j])
            /\ IsFullSentinel(companies[j]) \/ IsUnanalysed(companies[j])
C6_Witness ==
    /\ pc = "Done" /\ AllExtractFailed /\ Len(companies) >= 2
    /\ \A j \in 1..Len(companies) : Hits[j].scrape = "ok" /\ Hits[j].extract = "fail"

\* C7 (scenario E): when the tool-extraction call, every structured
\* extraction and the recommendation call fail, the run ends normally with
\* extracted_tools empty, companies taken from the fallback search without
\* any successful analysis in them, and analysis equal to the fallback text.
C7_ScenarioE ==
    (tool_llm = "fail" /\ AllExtractFailed /\ gen_llm = "fail") =>
        /\ pc = "Done"
        /\ extracted_tools = <<>>
        /\ Len(fallback) = 1 /\ NamesOf(companies) = NamesOf(Hits)
        /\ \A j \in 1..Len(companies) :
               IsFullSentinel(companies[j]) \/ IsUnanalysed(companies[j])
        /\ analysis = "Não foi possível gerar recomendações no momento."

\* C8 (scenario B), as claimed: if the article search returns zero results,
\* extracted_tools is empty after stage 1 and stage 2 takes the fallback
\* search on the original query.
C8_ZeroArticlesMeansNoTools ==
    (article = "empty" /\ tool_llm # "none") =>
        /\ extracted_tools = <<>>
        /\ ResearchRan => (Len(fallback) = 1 /\ fallback[1].query = query)

\* C8, amended: if the article search returns zero results the model is still
\* asked, with an empty context, and extracted_tools is what its answer parses
\* to (empty when the call fails); stage 2 issues the fallback search on the
\* original query with bound 4 exactly when extracted_tools is empty.
C8_ZeroArticlesThenFallbackIfEmpty ==
    article = "empty" =>
        /\ pc = "extract_llm" => (search_results = <<>> /\ all_content = <<>>)
        /\ pc # "extract_llm" => tool_llm \in {"ok", "fail"}
        /\ tool_llm = "fail" => extracted_tools = <<>>
        /\ (ResearchRan /\ extracted_tools = <<>>) =>
               /\ Len(fallback) = 1
               /\ fallback[1].query = query /\ fallback[1].num_results = 4
        /\ (ResearchRan /\ extracted_tools # <<>>) => fallback = <<>>
C8_Witness ==
    /\ article = "empty" /\ tool_llm = "ok" /\ extracted_tools = <<>>
    /\ pc = "Done" /\ Len(fallback) = 1 /\ companies # <<>>

\* C9: with extracted_tools of length n > 0 the research stage processes
\* exactly its first min(n, 4) entries, in order, and companies is the
\* order-preserving subsequence of the candidates whose official-site search
\* returned a result; a candidate without a result adds no entry.
C9_CandidatesAndHits ==
    (ResearchRan /\ extracted_tools # <<>>) =>
        /\ tool_names = SubSeq(extracted_tools, 1, Min(Len(extracted_tools), 4))
        /\ fallback = <<>>
        /\ EveryCandidateResearched

\* C10: every CompanyInfo of a returned state has a non-empty name and a
\* website that is a string, never None.
C10_NameAndWebsiteSet ==
    pc = "Done" =>
        \A i \in 1..Len(companies) :
            companies[i].name # <<>> /\ companies[i].website # None

\* C11: the query field of the state the pipeline returns equals the query
\* passed in, and no stage changes query: in every state of a run query is the
\* argument of the call, and so is the query of what the caller is handed.
C11_QueryUnchanged ==
    /\ query = arg
    /\ delivered.kind \in {"state", "text"} => delivered.query = arg
C11_Witness ==
    /\ pc = "Done" /\ extracted_tools # <<>> /\ companies # <<>>
    /\ delivered.kind = "state" /\ delivered.query = arg

\* the order of the nodes in the graph
StageOrder == <<"extract_tools", "research", "analyze">>

\* C12: in every run the stages execute in the order extract_tools, research,
\* analyze, each exactly once: the nodes entered so far are always a prefix of
\* that order, a run that has ended has entered all three, and nothing
\* happens after Done.
C12_FixedStageOrder ==
    /\ Len(ran) <= Len(StageOrder) /\ ran = SubSeq(StageOrder, 1, Len(ran))
    /\ pc \in {"Done", "Raised"} => ran = StageOrder
    /\ pc = "Done" => ~ENABLED Next

\* did an exception leave the extract_tools node
ExtractRaised == pc = "Raised" /\ ran = <<"extract_tools">>

\* C18: the extract_tools stage is total: whatever the article search, the
\* scrapes and the model call do, no exception leaves the stage and the
\* pipeline goes on to research; a failed model call leaves extracted_tools
\* empty.
C18_ExtractToolsIsTotal ==
    /\ ~ExtractRaised
    /\ tool_llm = "fail" => extracted_tools = <<>>
    /\ (ran # <<>> /\ pc # "extract_llm") => (pc = "research" \/ ResearchRan)

\* C19: the research stage never raises: a failed or empty fallback search, a
\* candidate without a search result, a failed scrape and a failed analysis
\* are absorbed for that candidate only, so every candidate is processed and
\* companies holds, in order, one entry per candidate whose search had a result.
C19_ResearchNeverRaises ==
    /\ ~ResearchRaised
    /\ ResearchRan => EveryCandidateResearched

\* the context the claim describes: for every scraped document, in result
\* order, its first 1500 characters and a blank line
RECURSIVE ExpectedContext(_, _)
ExpectedContext(docs, i) ==
    IF i > Len(docs) THEN <<>>
    ELSE (IF docs[i].ok THEN TakeRuns(docs[i].markdown, 1500) \o <<Run("\n", 2)>> ELSE <<>>)
         \o ExpectedContext(docs, i + 1)

\* C20: the context passed to the model in extract_tools is the concatenation,
\* in search-result order, of the 1500-character prefix of every successfully
\* scraped document, each followed by a blank line; a failed scrape adds
\* nothing and no excerpt is dropped.
C20_ContextIsAllExcerpts ==
    pc = "extract_llm" => all_content = ExpectedContext(scraped, 1)

\* C17: when a run ends before Done, by an exception that leaves a stage or
\* by the caller's interruption, the caller receives the exception (or the
\* error text) and never a ResearchState or an answer built from one; what is
\* handed over as a result comes from a state that reached Done, with
\* analysis set.
C17_NoPartialResult ==
    /\ pc \in {"Raised", "Cancelled"} => delivered.kind \in {"exception", "error_text"}
    /\ pc \notin {"Raised", "Cancelled", "Done"} => delivered = NoResult
    /\ delivered.kind \in {"state", "text"} =>
           /\ pc = "Done" /\ analysis # None
           /\ Len(delivered.companies) = Len(companies)
           /\ delivered.analysis = analysis
C17_Witness ==
    /\ pc = "Cancelled" /\ companies # <<>> /\ analysis = None
    /\ delivered = [kind |-> "exception", error |-> "KeyboardInterrupt"]

\* C13: if a credential is missing, constructing the engine fails with an
\* error and no stage ever runs on such an engine: main() ends with the
\* constructor's exception, the web application leaves workflow_agent at None
\* and answers workflow requests with the "unavailable" error.
C13_NoRunWithoutCredentials ==
    creds # Keys =>
        /\ \A im \in Impls : Construct(im, creds) \in {"ValueError", "OpenAIError"}
        /\ workflow_agent # "ready"
        /\ ran = <<>> /\ pc \in {"startup", "idle", "Exited"}
        /\ delivered.kind \in {"none", "unavailable"}
        /\ (pc # "startup" /\ impl = "Workflow") => (pc = "Exited" /\ error # "")
        /\ (pc # "startup" /\ impl = "WorkflowAgent") => workflow_agent = "None"
C13_Witness ==
    /\ creds = {"FIRECRAWL_API_KEY"} /\ impl = "WorkflowAgent"
    /\ workflow_agent = "None" /\ delivered = [kind |-> "unavailable"]

C16_OthersProgressDuringRun ==
    (pc \in {"extract_tools", "extract_llm", "research", "analyze"} /\ other = "pending")
        => ENABLED ServeOther

\* the messages of a history that are not the system message
Conversation(h) == {h[i] : i \in 2..Len(h)}

\* C15: requests of different callers never share conversation history: the
\* history sent to the model for a caller's request holds, besides the system
\* message, only messages of that caller's own conversation.
C15_HistoryNotShared ==
    \A c \in Callers :
        \A m \in Conversation(mcp[c].sent) : m.content = c


\* the companies in the state are those of the candidates whose search hit
CompaniesMatchHits == Len(companies) = Len(Hits)

\* C21 as stated: a field other than name and website differs from the value
\* the CompanyInfo was constructed with only after a successful analysis; in
\* particular a snippet description is never replaced by the failure marker.
C21_OnlySuccessfulAnalysisChanges ==
    CompaniesMatchHits =>
        \A j \in 1..Len(companies) :
            Hits[j].extract # "ok" =>
                /\ companies[j].description = Hits[j].snippet
                /\ companies[j].pricing_model = None

\* C21 (amended): name and website never change; the other fields change
\* only when the site was scraped, by the copy of the analysis result. A
\* failed scrape leaves the snippet description and the defaults; a failed
\* analysis replaces description and pricing_model by the failure sentinel,
\* whatever the snippet was, and leaves the lists and tri-state fields at
\* their defaults.
C21_FieldsChangeOnlyByAnalysisCopy ==
    CompaniesMatchHits =>
        \A j \in 1..Len(companies) :
            LET c == companies[j]
                h == Hits[j]
            IN  /\ c.name = h.name /\ c.website = h.url
                /\ c.competitors = <<>> /\ c.developer_experience_rating = None
                /\ h.scrape = "fail" => c.description = h.snippet /\ IsUnanalysed(c)
                /\ h.extract = "fail" => IsFullSentinel(c)
                /\ h.extract = "ok" =>
                       /\ c.description = GoodAnalysis.description
                       /\ c.pricing_model = GoodAnalysis.pricing_model
                       /\ c.tech_stack = GoodAnalysis.tech_stack
\* a run that ended with a snippet description replaced by the sentinel
C21_Witness ==
    /\ pc = "Done"
    /\ \E j \in 1..Len(companies) :
           /\ Hits[j].snippet # "" /\ Hits[j].extract = "fail"
           /\ companies[j].description = FailedDescription(impl)

\* C22: a candidate whose site scrape failed is still appended, with its
\* name, the url as website, the search snippet as description and every
\* analysis field at its default (is_open_source and api_available unset,
\* not False), and no structured extraction was called for it.
C22_FailedScrapeKeepsDefaults ==
    CompaniesMatchHits =>
        \A j \in 1..Len(companies) :
            Hits[j].scrape = "fail" =>
                /\ Hits[j].extract = "none"
                /\ companies[j].name = Hits[j].name
                /\ companies[j].website = Hits[j].url
                /\ companies[j].description = Hits[j].snippet
                /\ IsUnanalysed(companies[j])
                /\ companies[j].is_open_source # PyFalse
                /\ companies[j].api_available # PyFalse
                /\ companies[j].competitors = <<>>
                /\ companies[j].developer_experience_rating = None
\* a finished run with a candidate whose scrape failed, next to an analysed one
C22_Witness ==
    /\ pc = "Done"
    /\ \E j, k \in 1..Len(companies) :
           /\ Hits[j].scrape = "fail" /\ Hits[j].snippet # ""
           /\ Hits[k].extract = "ok"


\* the nodes of the graph, by the value pc has while the node runs
InExtractTools == pc \in {"extract_tools", "extract_llm"}

\* C23: each stage writes its own field of ResearchState and leaves the
\* others as they were: extract_tools only extracted_tools, research only
\* companies, analyze only analysis; so the final state holds extracted_tools
\* as the first stage set it (not cut to the four candidates researched) and
\* companies as the second stage set it, and Workflow.run returns them so.
C23_StagesOnlyAdd ==
    [][/\ InExtractTools => UNCHANGED <<query, companies, analysis>>
       /\ pc = "research" => UNCHANGED <<query, extracted_tools, analysis>>
       /\ pc = "analyze" => UNCHANGED <<query, extracted_tools, companies>>
       /\ (pc = "analyze" /\ pc' = "Done" /\ impl = "Workflow") =>
              /\ delivered'.extracted_tools = extracted_tools
              /\ delivered'.companies = companies]_vars
\* a finished run that researched four of the five tools the first stage named
C23_Witness ==
    /\ pc = "Done" /\ Len(extracted_tools) = MaxTools + 1
    /\ Len(tool_names) = MaxTools /\ companies # <<>> /\ analysis # None


\* how often node n of the graph was entered
Entered(n) == Cardinality({i \in 1..Len(ran) : ran[i] = n})
\* the calls one candidate's iteration made form a chain: the scrape follows
\* a search that hit, the structured extraction follows a scrape that worked
OneChain(c) ==
    /\ c.search # "hit" => c.scrape = "none"
    /\ c.scrape # "ok" => c.extract = "none"

\* C24: no collaborator call is repeated. Each node runs once per run, so
\* there is one article search, one tool-extraction call and one
\* recommendation call at most; the fallback search is issued at most once,
\* and only when no tool was extracted; the candidates are gone through once
\* in order, each with one official-site search, at most one scrape and at
\* most one structured extraction, whatever failed; each article result is
\* scraped once.
C24_SingleAttempt ==
    /\ \A n \in {"extract_tools", "research", "analyze"} : Entered(n) <= 1
    /\ (article # "none") = (Entered("extract_tools") = 1)
    /\ tool_llm # "none" => Entered("extract_tools") = 1
    /\ gen_llm # "none" => Entered("analyze") = 1
    /\ Len(fallback) <= 1
    /\ Len(fallback) <= Entered("research")
    /\ Len(calls) <= Len(tool_names)
    /\ NamesOf(calls) = Take(tool_names, Len(calls))
    /\ \A i \in 1..Len(calls) : OneChain(calls[i])
    /\ Len(scraped) = Len(search_results)
\* a finished run in which a search, a scrape and an extraction failed, each
\* for another candidate, after the tool-extraction call had failed
C24_Witness ==
    /\ pc = "Done" /\ tool_llm = "fail" /\ Len(fallback) = 1
    /\ \E i, j, k \in 1..Len(calls) :
           /\ calls[i].search = "fail"
           /\ calls[j].scrape = "fail"
           /\ calls[k].extract = "fail"


\* the first position after position a of text s that holds a newline, or
\* the position after the end of s
NextBreak(s, a) ==
    CHOOSE b \in (a + 1)..(Len(s) + 1) :
        /\ b = Len(s) + 1 \/ s[b] = "\n"
        /\ \A x \in (a + 1)..(b - 1) : s[x] # "\n"
\* the lines of text s that start after position a, in order
RECURSIVE LinesAfter(_, _)
LinesAfter(s, a) ==
    IF a > Len(s) THEN <<>>
    ELSE <<SubSeq(s, a + 1, NextBreak(s, a) - 1)>> \o LinesAfter(s, NextBreak(s, a))
\* the positions of a line that hold something else than white space
Ink(line) == {i \in 1..Len(line) : ~IsSpace(line[i])}
HasInk(line) == Ink(line) # {}
\* a line without the white space before its first and after its last mark
Trimmed(line) ==
    LET first == CHOOSE i \in Ink(line) : \A k \in Ink(line) : i <= k
        last == CHOOSE i \in Ink(line) : \A k \in Ink(line) : i >= k
    IN  SubSeq(line, first, last)
\* the non-empty lines of a text, trimmed, in the order of the text
TrimmedLines(s) ==
    LET kept == SelectSeq(LinesAfter(s, 0), HasInk)
    IN  [i \in 1..Len(kept) |-> Trimmed(kept[i])]

\* C25: once the extract_tools stage has parsed an answer of the model,
\* extracted_tools holds no empty and no white-space-only entry, every entry
\* is trimmed, and the entries are the non-empty lines of the answer in their
\* order; an answer of blank lines only gives the empty list.
C25_ToolsAreTrimmedLines ==
    \A r \in response :
        (pc = "research" /\ r.ok) =>
            /\ extracted_tools = TrimmedLines(r.content)
            /\ \A i \in 1..Len(extracted_tools) :
                   LET t == extracted_tools[i]
                   IN  /\ t # <<>>
                       /\ ~IsSpace(t[1]) /\ ~IsSpace(t[Len(t)])
                       /\ \A k \in 1..Len(t) : t[k] # "\n"
            /\ (~HasInk(r.content) => extracted_tools = <<>>)
\* answers parsed: one with a blank first line and a space after the name,
\* and the one of five names
C25_Witness ==
    /\ pc = "research"
    /\ \E r \in response :
           /\ r.ok
           /\ \/ r.content = <<"\n", "a", " ">> /\ extracted_tools = <<(<<"a">>)>>
              \/ r.content = FiveNames /\ Len(extracted_tools) = MaxTools + 1


\* C26: scrape_company_pages is called only with a non-empty url: in the
\* extract_tools stage no article result without a url has a scrape outcome,
\* and in the research stage no candidate whose search result has no url was
\* scraped.
C26_ScrapeOnlyUsableUrls ==
    /\ \A i \in 1..Len(scraped) : Get(search_results[i], "url", "") # ""
    /\ \A i \in 1..Len(calls) : calls[i].scrape # "none" => calls[i].url # ""


\* C27: the external agent keeps the last ten messages only: its
\* message_history never holds more than ten entries.
C27_AtMostTenMessages == Len(externo_history) <= HistoryLimit


\* the entry process_message appends for caller c's message
UserEntry(c) == [role |-> "user", content |-> c]

\* C28: whatever process_message and reset_conversation calls are made, the
\* first entry of message_history is the system message; a process_message
\* call appends exactly its user entry, hands the whole history as it stands
\* to the agent, and appends exactly one assistant entry if the agent
\* answers; if the call fails the history is left as it is, the user entry
\* included, and goes out with the next request; reset_conversation leaves
\* the system message alone.
C28_HistoryDiscipline ==
    [][/\ message_history # <<>> /\ message_history[1] = SystemPrompt
       /\ message_history' # <<>> /\ message_history'[1] = SystemPrompt
       /\ \A c \in Callers :
            /\ (mcp[c].st \in {"idle", "done"} /\ mcp'[c].st = "connecting") =>
                   message_history' = Append(message_history, UserEntry(c))
            /\ (mcp[c].st = "connecting" /\ mcp'[c].st = "invoking") =>
                   /\ mcp'[c].sent = message_history
                   /\ message_history' = message_history
            /\ (mcp[c].st = "invoking" /\ mcp'[c].reply = "answer") =>
                   /\ Len(message_history') = Len(message_history) + 1
                   /\ SubSeq(message_history', 1, Len(message_history)) = message_history
                   /\ message_history'[Len(message_history')].role = "assistant"
            /\ (mcp[c].st \in {"connecting", "invoking"} /\ mcp'[c].reply = "error") =>
                   message_history' = message_history
       /\ (mcp' = mcp /\ message_history' # message_history) =>
              message_history' = <<SystemPrompt>>]_vars
\* a request went out with the unanswered message of a call that had failed
\* before it, and the conversation was reset after that
C28_Witness ==
    \E c, d \in Callers :
        /\ c # d
        /\ mcp[c].st = "done" /\ mcp[c].reply = "error"
        /\ mcp[d].st = "invoking"
        /\ mcp[d].sent = <<SystemPrompt, UserEntry(c), UserEntry(d)>>
        /\ message_history = <<SystemPrompt>>


\* the place of agent type t in the order of construction
Place(t) == CHOOSE i \in 1..Len(AgentOrder) : AgentOrder[i] = t

\* C29: the startup goes on whatever raises; the agents are built in the
\* order mcp, workflow, rag, externo, mermaid: when the step of one of them
\* raises, that agent and the agents after it are None and the agents before
\* it that the environment asks for are set; a request for an agent that is
\* None is answered with status "error" and no agent method is called.
C29_FailedAgentAndLaterStayNone ==
    pc = "idle" =>
        /\ init_raised # "none" =>
               \A t \in AgentTypes :
                   /\ Place(t) >= Place(AgentOf(init_raised)) => ~IsSet(t)
                   /\ (Place(t) < Place(AgentOf(init_raised)) /\ Wanted(t, creds)) => IsSet(t)
        /\ (chat.http = 200 /\ chat.agent_type \in AgentTypes /\ ~IsSet(chat.agent_type)) =>
               chat.status = "error" /\ chat.invoked = "none"

\* C30: a POST /chat whose agent_type is none of the five is answered with
\* HTTP 400 and no agent is called; one whose message is empty or blank is
\* answered with HTTP 400 and no agent is called.
C30_BadRequestsGet400 ==
    /\ (chat.http # 0 /\ chat.agent_type \notin AgentTypes) =>
           chat.http = 400 /\ chat.invoked = "none"
    /\ (chat.http # 0 /\ chat.blank) => chat.http = 400 /\ chat.invoked = "none"

=============================================================================
